---- MODULE Spec2Model ----
(***************************************************************************)
(* A model of RdsDataApiClient (src/data_api_adaptor/rds_data_api_client.py): *)
(* the PyMySQL-compatible facade over the RDS Data API.                    *)
(*                                                                         *)
(* Python strings that the code searches or rewrites (queries, parameter   *)
(* names) are sequences of one-character strings.  A Python scalar is a    *)
(* record [type, val] whose type is the name str(type(x)) shows.  A Python *)
(* dict is a function from its keys.  The outcome of a call is a record    *)
(* [kind |-> "return", ...], [kind |-> "None"] or [kind |-> "raise", ...]. *)
(***************************************************************************)
EXTENDS Integers, Sequences, FiniteSets, TLC

VARIABLES
    call,                      \* the public method called last, with its inputs
    ret,                       \* what that call returned or raised
    data_api_response,         \* self.data_api_response
    number_of_affected_rows,   \* self.number_of_affected_rows
    returning_ids,             \* self.returning_ids
    lastrowid,                 \* self.lastrowid
    fetch_log,                 \* history: the stored response as received, and the rows handed out
    batch_ids                  \* history: the generated ids the batch calls were answered with

vars == <<call, ret, data_api_response, number_of_affected_rows,
          returning_ids, lastrowid, fetch_log, batch_ids>>

----------------------------------------------------------------------------
(* Bounds of the model. *)

MaxFrags == 4        \* fragments a translated query is assembled from
MaxArgs == 2         \* arguments in an argument list or mapping
MaxRows == 2         \* rows in a result set
MaxBatch == 2        \* parameter sets (and per-row results) of one executemany
MaxIds == 2          \* generated ids kept over all executemany calls

----------------------------------------------------------------------------
(* Python values. *)

PyNone == [type |-> "NoneType", val |-> "None"]
PyBool(b) == [type |-> "bool", val |-> b]
PyInt(n) == [type |-> "int", val |-> n]
PyFloat(whole, tenths) == [type |-> "float", val |-> <<whole, tenths>>]
PyStr(s) == [type |-> "str", val |-> s]
PyDatetime(month, day) == [type |-> "datetime.datetime", val |-> <<month, day>>]
PyDecimal(n) == [type |-> "decimal.Decimal", val |-> n]

ReturnNone == [kind |-> "None"]
Return(v) == [kind |-> "return", value |-> v]
Raise(e) == [kind |-> "raise", exc |-> e]

Digit == <<"0", "1", "2", "3", "4", "5", "6", "7", "8", "9">>

RECURSIVE IntStr(_)
IntStr(n) == IF n < 10 THEN <<Digit[n + 1]>>
             ELSE IntStr(n \div 10) \o <<Digit[(n % 10) + 1]>>

TwoDigits(n) == <<Digit[(n \div 10) + 1], Digit[(n % 10) + 1]>>

(* str() of a datetime of the year 2021 at midnight: "2021-MM-DD 00:00:00". *)
DatetimeStr(v) ==
    <<"2", "0", "2", "1", "-">> \o TwoDigits(v[1]) \o <<"-">> \o TwoDigits(v[2])
        \o <<" ", "0", "0", ":", "0", "0", ":", "0", "0">>

----------------------------------------------------------------------------
(* Python string operations the translator uses. *)

StartsWithAt(s, i, pat) ==
    /\ i + Len(pat) - 1 <= Len(s)
    /\ \A j \in 1..Len(pat) : s[i + j - 1] = pat[j]

Occurrences(s, pat) == {i \in 1..Len(s) : StartsWithAt(s, i, pat)}

(* `pat in s` *)
Contains(s, pat) == \E i \in 1..Len(s) : StartsWithAt(s, i, pat)

Minimum(S) == CHOOSE x \in S : \A y \in S : x <= y

(* s.find(pat), from 1; only asked when pat is in s. *)
str_find(s, pat) ==
    CHOOSE i \in 1..Len(s) :
        StartsWithAt(s, i, pat) /\ \A j \in 1..(i - 1) : ~StartsWithAt(s, j, pat)

(* Had the named markers been replaced with a count of 1. *)
str_replace_counted(s, old, new) ==
    IF ~Contains(s, old) THEN s
    ELSE LET i == str_find(s, old)
         IN SubSeq(s, 1, i - 1) \o new \o SubSeq(s, i + Len(old), Len(s))

(* s.replace(old, new) *)
RECURSIVE str_replace(_, _, _)
str_replace(s, old, new) ==
    IF ~Contains(s, old) THEN s
    ELSE LET i == str_find(s, old)
         IN SubSeq(s, 1, i - 1) \o new
                \o str_replace(SubSeq(s, i + Len(old), Len(s)), old, new)

(* Had the positional marker been replaced without the count. *)
str_replace_uncounted(s, old, new) == str_replace(s, old, new)

(* s.replace(old, new, 1) *)
str_replace_first(s, old, new) ==
    IF ~Contains(s, old) THEN s
    ELSE LET i == str_find(s, old)
         IN SubSeq(s, 1, i - 1) \o new \o SubSeq(s, i + Len(old), Len(s))

Whitespace == {" "}

(* re.search(r'%(\S+)s', query): the parentheses group, they match nothing. *)
re_search_named(query) ==
    \E i, j \in 1..Len(query) :
        /\ query[i] = "%"
        /\ j >= i + 2
        /\ query[j] = "s"
        /\ \A k \in (i + 1)..(j - 1) : query[k] \notin Whitespace

----------------------------------------------------------------------------
(* ArgumentEncoder: __map_argument_pair_to_data_api_arg. *)

(* Had the type been tested with isinstance, int before bool. *)
mapping_int_before_bool ==
    [t \in {"str", "int", "float", "bool", "datetime.datetime", "NoneType"} |->
        CASE t = "str" -> "stringValue"
          [] t = "int" -> "longValue"
          [] t = "float" -> "doubleValue"
          [] t = "bool" -> "longValue"
          [] t = "datetime.datetime" -> "stringValue"
          [] t = "NoneType" -> "isNull"]

mapping ==
    [t \in {"str", "int", "float", "bool", "datetime.datetime", "NoneType"} |->
        CASE t = "str" -> "stringValue"
          [] t = "int" -> "longValue"
          [] t = "float" -> "doubleValue"
          [] t = "bool" -> "booleanValue"
          [] t = "datetime.datetime" -> "stringValue"
          [] t = "NoneType" -> "isNull"]

(* The type names that contain 'datetime'. *)
DatetimeNamed == {"datetime.datetime"}

map_argument_pair_to_data_api_arg(arg_name, arg_value) ==
    IF arg_value.type \notin DOMAIN mapping THEN Raise("KeyError")
    ELSE LET arg_datatype == mapping[arg_value.type]
             hinted == arg_value.type \in DatetimeNamed
             as_text == IF hinted THEN PyStr(DatetimeStr(arg_value.val))
                        ELSE arg_value
             stored == IF as_text # PyNone THEN as_text ELSE PyBool(TRUE)
             constructed_parameter ==
                 [name |-> arg_name, value |-> (arg_datatype :> stored)]
         IN Return(IF hinted
                   THEN constructed_parameter @@ [typeHint |-> "TIMESTAMP"]
                   ELSE constructed_parameter)

----------------------------------------------------------------------------
(* PlaceholderTranslator.  Arguments are [kind |-> "list", seq |-> values]  *)
(* or [kind |-> "dict", seq |-> <<key, value>> pairs in insertion order].   *)

PositionalMarker == <<"%", "s">>
NamedMarker(arg_name) == <<"%", "(">> \o arg_name \o <<")", "s">>
ParameterName(index) ==
    <<"p", "a", "r", "a", "m", "e", "t", "e", "r", "_">> \o IntStr(index)

ReturnPair(new_query, new_query_args) ==
    [kind |-> "return", new_query |-> new_query, new_query_args |-> new_query_args]

(* What `for ... in enumerate(query_args)` visits: the items of a list, the keys of a dict. *)
Enumerated(query_args) ==
    IF query_args.kind = "dict"
    THEN [i \in 1..Len(query_args.seq) |-> PyStr(query_args.seq[i][1])]
    ELSE query_args.seq

RECURSIVE list_or_tuple_loop(_, _, _, _)
list_or_tuple_loop(new_query, new_query_args, items, index) ==
    IF index >= Len(items) THEN ReturnPair(new_query, new_query_args)
    ELSE LET placeholder_name == ParameterName(index)
             replaced == str_replace_first(new_query, PositionalMarker,
                                           <<":">> \o placeholder_name)
             new_query_arg ==
                 map_argument_pair_to_data_api_arg(placeholder_name, items[index + 1])
         IN IF new_query_arg.kind = "raise" THEN new_query_arg
            ELSE list_or_tuple_loop(replaced,
                                    Append(new_query_args, new_query_arg.value),
                                    items, index + 1)

convert_query_and_list_or_tuple_query_args(query, query_args) ==
    list_or_tuple_loop(query, <<>>, Enumerated(query_args), 0)

RECURSIVE dict_loop(_, _, _, _)
dict_loop(new_query, new_query_args, items, n) ==
    IF n > Len(items) THEN ReturnPair(new_query, new_query_args)
    ELSE LET arg_name == items[n][1]
             arg_value == items[n][2]
             replaced == str_replace(new_query, NamedMarker(arg_name),
                                     <<":">> \o arg_name)
             new_query_arg == map_argument_pair_to_data_api_arg(arg_name, arg_value)
         IN IF new_query_arg.kind = "raise" THEN new_query_arg
            ELSE dict_loop(replaced, Append(new_query_args, new_query_arg.value),
                           items, n + 1)

convert_query_and_dict_query_args(query, query_args) ==
    IF query_args.kind # "dict" THEN Raise("AttributeError")
    ELSE dict_loop(query, <<>>, query_args.seq, 1)

convert_query_and_query_args_for_data_api(query, query_args) ==
    IF Contains(query, PositionalMarker)
    THEN convert_query_and_list_or_tuple_query_args(query, query_args)
    ELSE IF re_search_named(query)
    THEN convert_query_and_dict_query_args(query, query_args)
    ELSE ReturnNone

----------------------------------------------------------------------------
(* Inputs of the translation and encoding checks. *)

RECURSIVE Flatten(_)
Flatten(ss) == IF ss = <<>> THEN <<>> ELSE Head(ss) \o Flatten(Tail(ss))

SeqsUpTo(S, n) == UNION {[1..m -> S] : m \in 0..n}

ArgNames == {<<"a">>, <<"b">>}

Fragments ==
    {PositionalMarker} \cup {NamedMarker(k) : k \in ArgNames}
        \cup {<<"%">>, <<"s">>, <<"x">>, <<" ">>}

Queries == {Flatten(fs) : fs \in SeqsUpTo(Fragments, MaxFrags)}

TranslatedValues == {PyInt(1), PyStr(<<"x">>)}

ListArgs == {[kind |-> "list", seq |-> vs] : vs \in SeqsUpTo(TranslatedValues, MaxArgs)}

DictArgs ==
    {[kind |-> "dict", seq |-> kvs] :
        kvs \in {s \in SeqsUpTo(ArgNames \X TranslatedValues, MaxArgs) :
                    \A i, j \in 1..Len(s) : s[i][1] = s[j][1] => i = j}}

SupportedScalars ==
    {PyNone, PyBool(TRUE), PyBool(FALSE), PyInt(0), PyInt(1), PyInt(42),
     PyFloat(0, 0), PyFloat(1, 5), PyStr(<<>>), PyStr(<<"x">>), PyStr(<<"%", "s">>),
     PyDatetime(5, 7), PyDatetime(12, 31)}

Scalars == SupportedScalars \cup {PyDecimal(1)}

EncodedNames == ArgNames \cup {ParameterName(0), ParameterName(1)}

Pending == [kind |-> "pending"]

----------------------------------------------------------------------------
(* ResultDecoder: data_api_response_to_pymysql_response.  A response is the *)
(* dict boto3 returns; a Field (a cell) is a dict of one key, its tag.      *)

HTTP_OK == 200

ReturnDict(v) == [kind |-> "dict", value |-> v]
ReturnList(v) == [kind |-> "list", value |-> v]
ReturnValue(v) == [kind |-> "value", value |-> v]

(* `not data_api_response.get('columnMetadata')` *)
NoColumnMetadata(response) ==
    \/ "columnMetadata" \notin DOMAIN response
    \/ response.columnMetadata = <<>>

(* Had a cell been null only when its isNull is true. *)
row_values_when_flagged(row) ==
    [i \in 1..Len(row) |->
        LET key == CHOOSE k \in DOMAIN row[i] : TRUE
        IN IF key = "isNull" /\ row[i][key] = PyBool(TRUE) THEN PyNone ELSE row[i][key]]

(* [value if key != 'isNull' else None for type_value_pair in row           *)
(*  for key, value in type_value_pair.items()]                              *)
row_values(row) ==
    [i \in 1..Len(row) |->
        LET key == CHOOSE k \in DOMAIN row[i] : TRUE
        IN IF key # "isNull" THEN row[i][key] ELSE PyNone]

(* dict(zip(column_labels, values)): zip stops at the shorter one, a later  *)
(* pair of the same label replaces the earlier.                             *)
dict_zip(column_labels, values) ==
    LET n == IF Len(column_labels) <= Len(values) THEN Len(column_labels)
             ELSE Len(values)
    IN [l \in {column_labels[i] : i \in 1..n} |->
            values[CHOOSE i \in 1..n :
                      /\ column_labels[i] = l
                      /\ \A j \in 1..n : column_labels[j] = l => j <= i]]

formatted_row(column_labels, row) == dict_zip(column_labels, row_values(row))

(* Had no record meant a bare return in either mode. *)
no_records_bare_return(fetch_mode) == ReturnNone

(* What is returned when there is no record. *)
no_records(fetch_mode) ==
    IF fetch_mode = "one" THEN ReturnNone ELSE ReturnList(<<>>)

(* Had the row been taken with records.pop(). *)
pop_last(records) ==
    [row |-> records[Len(records)], left |-> SubSeq(records, 1, Len(records) - 1)]

(* records.pop(0): the row taken and the records left. *)
pop_first(records) == [row |-> Head(records), left |-> Tail(records)]

(* The value returned (or the exception raised) and the response as the     *)
(* call leaves it: 'one' pops the first record, 'all' empties the records.  *)
data_api_response_to_pymysql_response(response, fetch_mode) ==
    IF response = PyNone
    THEN [result |-> Raise("AttributeError"), response |-> response]
    ELSE IF NoColumnMetadata(response) /\ response.ResponseMetadata.HTTPStatusCode = HTTP_OK
    THEN [result |-> ReturnNone, response |-> response]
    ELSE IF "columnMetadata" \notin DOMAIN response
    THEN [result |-> Raise("KeyError"), response |-> response]
    ELSE LET column_labels ==
                 [i \in 1..Len(response.columnMetadata) |-> response.columnMetadata[i].label]
         IN IF Len(response.records) = 0
            THEN [result |-> no_records(fetch_mode), response |-> response]
            ELSE IF fetch_mode = "one"
            THEN LET popped == pop_first(response.records)
                 IN [result |-> ReturnDict(formatted_row(column_labels, popped.row)),
                     response |-> [response EXCEPT !.records = popped.left]]
            ELSE [result |-> ReturnList([i \in 1..Len(response.records) |->
                                 formatted_row(column_labels, response.records[i])]),
                  response |-> [response EXCEPT !.records = <<>>]]

----------------------------------------------------------------------------
(* The state of a new RdsDataApiClient (__init__). *)

FacadeInit ==
    /\ data_api_response = PyNone
    /\ number_of_affected_rows = PyNone
    /\ returning_ids = <<>>
    /\ lastrowid = PyNone
    /\ fetch_log = [received |-> <<>>, handed |-> <<>>]
    /\ batch_ids = <<>>

facade == <<data_api_response, number_of_affected_rows, returning_ids,
            lastrowid, fetch_log, batch_ids>>

----------------------------------------------------------------------------
(* SpecTranslate: the translator and the encoder as pure functions, each     *)
(* applied once to inputs drawn from the bounded sets above.                 *)

InitTranslate ==
    /\ \/ \E q \in Queries, a \in ListArgs :
              call = [op |-> "convert", query |-> q, query_args |-> a]
       \/ \E q \in Queries, a \in DictArgs :
              call = [op |-> "convert", query |-> q, query_args |-> a]
       \/ \E n \in EncodedNames, v \in Scalars :
              call = [op |-> "encode", arg_name |-> n, arg_value |-> v]
    /\ ret = Pending
    /\ FacadeInit

Convert ==
    /\ call.op = "convert"
    /\ ret = Pending
    /\ ret' = convert_query_and_query_args_for_data_api(call.query, call.query_args)
    /\ UNCHANGED <<call, facade>>

Encode ==
    /\ call.op = "encode"
    /\ ret = Pending
    /\ ret' = map_argument_pair_to_data_api_arg(call.arg_name, call.arg_value)
    /\ UNCHANGED <<call, facade>>

NextTranslate == Convert \/ Encode

SpecTranslate == InitTranslate /\ [][NextTranslate]_vars

----------------------------------------------------------------------------
(* What the translation claims compare the code's result with: the query     *)
(* read once from left to right, each marker found at its place replaced.    *)
(* `at` maps the place of a marker to its length and its replacement.        *)

RECURSIVE SubstituteFrom(_, _, _)
SubstituteFrom(s, at, i) ==
    IF i > Len(s) THEN <<>>
    ELSE IF i \in DOMAIN at
    THEN at[i].new \o SubstituteFrom(s, at, i + at[i].len)
    ELSE <<s[i]>> \o SubstituteFrom(s, at, i + 1)

PositionalPlaces(query) ==
    LET places == Occurrences(query, PositionalMarker)
    IN [p \in places |->
            [len |-> 2,
             new |-> <<":">> \o ParameterName(Cardinality({o \in places : o < p}))]]

MarkerAt(query, p, names) == CHOOSE k \in names : StartsWithAt(query, p, NamedMarker(k))

NamedPlaces(query, names) ==
    LET places == UNION {Occurrences(query, NamedMarker(k)) : k \in names}
    IN [p \in places |->
            [len |-> Len(NamedMarker(MarkerAt(query, p, names))),
             new |-> <<":">> \o MarkerAt(query, p, names)]]

(* A named marker %(...)s of any name. *)
HasNamedMarker(query) ==
    \E i, j \in 1..Len(query) :
        /\ StartsWithAt(query, i, <<"%", "(">>)
        /\ j >= i + 2
        /\ StartsWithAt(query, j, <<")", "s">>)

Converted == call.op = "convert" /\ ret # Pending
Encoded == call.op = "encode" /\ ret # Pending

Keys(query_args) == {query_args.seq[i][1] : i \in 1..Len(query_args.seq)}

PositionalCase ==
    /\ Converted
    /\ call.query_args.kind = "list"
    /\ Len(call.query_args.seq) >= 1
    /\ Cardinality(Occurrences(call.query, PositionalMarker)) = Len(call.query_args.seq)

(* C1: a query with exactly k >= 1 markers %s, translated with a sequence of *)
(* k arguments, comes back with the i-th %s from the left replaced by        *)
(* :parameter_i, no %s left and the rest of the text unchanged, and with     *)
(* exactly k encoded parameters named parameter_0 .. parameter_{k-1} in that *)
(* order, the i-th holding the encoding of the i-th argument.                *)
C1_PositionalTranslation ==
    PositionalCase =>
        /\ ret.kind = "return"
        /\ ret.new_query =
               SubstituteFrom(call.query, PositionalPlaces(call.query), 1)
        /\ ~Contains(ret.new_query, PositionalMarker)
        /\ Len(ret.new_query_args) = Len(call.query_args.seq)
        /\ \A i \in 1..Len(call.query_args.seq) :
               /\ ret.new_query_args[i].name = ParameterName(i - 1)
               /\ Return(ret.new_query_args[i]) =
                      map_argument_pair_to_data_api_arg(ParameterName(i - 1),
                                                        call.query_args.seq[i])

(* Two markers separated by text, two arguments of different types. *)
C1_Witness ==
    /\ PositionalCase
    /\ call.query = <<"%", "s", "x", "%", "s">>
    /\ call.query_args.seq = <<PyStr(<<"x">>), PyInt(1)>>
    /\ ret.kind = "return"
    /\ ret.new_query = <<":">> \o ParameterName(0) \o <<"x", ":">> \o ParameterName(1)

NamedCase ==
    /\ Converted
    /\ call.query_args.kind = "dict"
    /\ ~Contains(call.query, PositionalMarker)
    /\ Keys(call.query_args) # {}
    /\ Keys(call.query_args) =
           {k \in ArgNames : Contains(call.query, NamedMarker(k))}

(* C2: a query with named markers only, translated with a mapping whose keys *)
(* are the marker names, comes back with every occurrence of every marker    *)
(* %(key)s replaced by :key, and with exactly one encoded parameter per key, *)
(* named by the key and holding the encoding of the key's value.             *)
C2_NamedTranslation ==
    NamedCase =>
        /\ ret.kind = "return"
        /\ ret.new_query =
               SubstituteFrom(call.query,
                              NamedPlaces(call.query, Keys(call.query_args)), 1)
        /\ \A k \in Keys(call.query_args) : ~Contains(ret.new_query, NamedMarker(k))
        /\ Len(ret.new_query_args) = Cardinality(Keys(call.query_args))
        /\ \A n \in 1..Len(call.query_args.seq) :
               LET k == call.query_args.seq[n][1]
                   v == call.query_args.seq[n][2]
                   named == {i \in 1..Len(ret.new_query_args) :
                                ret.new_query_args[i].name = k}
               IN /\ Cardinality(named) = 1
                  /\ \A i \in named :
                         Return(ret.new_query_args[i]) =
                             map_argument_pair_to_data_api_arg(k, v)

(* The mapping {a: 1, b: "x"}, the marker of a occurring twice. *)
C2_Witness ==
    /\ NamedCase
    /\ call.query = NamedMarker(<<"a">>) \o NamedMarker(<<"b">>) \o <<" ">>
                        \o NamedMarker(<<"a">>)
    /\ call.query_args.seq = << <<(<<"a">>), PyInt(1)>>, <<(<<"b">>), PyStr(<<"x">>)>> >>
    /\ ret.kind = "return"
    /\ ret.new_query = <<":", "a", ":", "b", " ", ":", "a">>
    /\ ret.new_query_args =
           << [name |-> <<"a">>, value |-> [longValue |-> PyInt(1)]],
              [name |-> <<"b">>, value |-> [stringValue |-> PyStr(<<"x">>)]] >>

EncodedSupported == Encoded /\ call.arg_value \in SupportedScalars

ExpectedTag(t) ==
    CASE t = "NoneType" -> "isNull"
      [] t = "bool" -> "booleanValue"
      [] t = "int" -> "longValue"
      [] t = "float" -> "doubleValue"
      [] t = "str" -> "stringValue"
      [] t = "datetime.datetime" -> "stringValue"

(* C3: the encoding of a supported scalar has exactly one tag, chosen by the *)
(* type of the value: null gives isNull with true, a boolean booleanValue    *)
(* (never longValue), an integer longValue, a float doubleValue, text        *)
(* stringValue, a timestamp stringValue holding its string form; typeHint    *)
(* TIMESTAMP is there for timestamps only; the name is the name passed in.   *)
C3_EncodingDispatch ==
    EncodedSupported =>
        /\ ret.kind = "return"
        /\ ret.value.name = call.arg_name
        /\ DOMAIN ret.value.value = {ExpectedTag(call.arg_value.type)}
        /\ ret.value.value[ExpectedTag(call.arg_value.type)] =
               CASE call.arg_value.type = "NoneType" -> PyBool(TRUE)
                 [] call.arg_value.type = "datetime.datetime" ->
                        PyStr(DatetimeStr(call.arg_value.val))
                 [] OTHER -> call.arg_value
        /\ call.arg_value.type = "bool" => "longValue" \notin DOMAIN ret.value.value
        /\ IF call.arg_value.type = "datetime.datetime"
           THEN DOMAIN ret.value = {"name", "value", "typeHint"}
                /\ ret.value.typeHint = "TIMESTAMP"
           ELSE DOMAIN ret.value = {"name", "value"}

(* A boolean has been encoded. *)
C3_Witness ==
    /\ EncodedSupported
    /\ call.arg_value = PyBool(TRUE)
    /\ ret = Return([name |-> call.arg_name, value |-> [booleanValue |-> PyBool(TRUE)]])

NeitherCase ==
    /\ Converted
    /\ ~Contains(call.query, PositionalMarker)
    /\ ~HasNamedMarker(call.query)

(* C10: translating a query with no positional and no named marker completes *)
(* without error and hands back a result whose parameter list is empty.      *)
C10_NeitherPatternYieldsNoParameters ==
    NeitherCase => ret.kind = "return" /\ ret.new_query_args = <<>>

----------------------------------------------------------------------------
(* CompatibilityFacade: the cursor methods of RdsDataApiClient.  `self` is   *)
(* the record of the instance's fields; `remote` is what the Data API call   *)
(* of the method answers: [kind |-> "response", response |-> r] or an        *)
(* exception of the client.                                                  *)

Self ==
    [data_api_response |-> data_api_response,
     number_of_affected_rows |-> number_of_affected_rows,
     returning_ids |-> returning_ids,
     lastrowid |-> lastrowid,
     ret |-> ret]

NoArgs == [kind |-> "None", seq |-> <<>>]

(* `if query_args:` *)
Supplied(query_args) == query_args.kind # "None" /\ Len(query_args.seq) > 0

(* Had the generated id been tested with `is not None`. *)
IsNotNone(v) == v # PyNone

(* The truth value of a Python scalar. *)
IsTrue(v) ==
    CASE v.type = "NoneType" -> FALSE
      [] v.type = "bool" -> v.val
      [] v.type = "int" -> v.val # 0
      [] v.type = "float" -> v.val # <<0, 0>>
      [] OTHER -> v.val # <<>>

(* dict.get(key) *)
Get(d, key) == IF key \in DOMAIN d THEN d[key] ELSE PyNone

LowerCase == <<"a", "b", "c", "d", "e", "f", "g", "h", "i", "j", "k", "l", "m",
               "n", "o", "p", "q", "r", "s", "t", "u", "v", "w", "x", "y", "z">>
UpperCase == <<"A", "B", "C", "D", "E", "F", "G", "H", "I", "J", "K", "L", "M",
               "N", "O", "P", "Q", "R", "S", "T", "U", "V", "W", "X", "Y", "Z">>

UpperOf == [c \in {LowerCase[n] : n \in 1..26} |->
                UpperCase[CHOOSE n \in 1..26 : LowerCase[n] = c]]

(* Had the query been searched as it is written. *)
str_as_written(s) == s

str_upper(s) ==
    [i \in 1..Len(s) |-> IF s[i] \in DOMAIN UpperOf THEN UpperOf[s[i]] ELSE s[i]]

INSERT == <<"I", "N", "S", "E", "R", "T">>

(* `new_query, new_query_args = self.convert_...(query, query_args)`:        *)
(* unpacking None raises TypeError.                                          *)
Unpacked(converted) ==
    IF converted.kind = "None" THEN Raise("TypeError") ELSE converted

(* execute, lines 49-53: what is handed to execute_query. *)
execute_translated(query, query_args) ==
    IF Supplied(query_args)
    THEN Unpacked(convert_query_and_query_args_for_data_api(query, query_args))
    ELSE ReturnPair(query, <<>>)

(* execute, from the call of execute_query on. *)
execute(self, query, translated, remote) ==
    IF translated.kind = "raise" THEN [self EXCEPT !.ret = translated]
    ELSE IF remote.kind = "raise" THEN [self EXCEPT !.ret = remote]
    ELSE LET response == remote.response
             generated == response.generatedFields
             is_insert == Contains(str_upper(query), INSERT)
             stored == [self EXCEPT !.data_api_response = response]
         IN IF is_insert /\ Len(generated) > 0 /\ "longValue" \notin DOMAIN generated[1]
            THEN [stored EXCEPT !.ret = Raise("KeyError")]
            ELSE [stored EXCEPT
                     !.lastrowid = IF is_insert /\ Len(generated) > 0
                                   THEN generated[1].longValue
                                   ELSE @,
                     !.number_of_affected_rows = response.numberOfRecordsUpdated,
                     !.ret = ReturnValue(response.numberOfRecordsUpdated)]

(* The loop over updateResults of executemany. *)
RECURSIVE collect_returning_ids(_, _)
collect_returning_ids(ids, updateResults) ==
    IF updateResults = <<>> THEN ids
    ELSE LET result == Head(updateResults)
         IN collect_returning_ids(
                IF /\ Len(result.generatedFields) # 0
                   /\ IsTrue(Get(result.generatedFields[1], "longValue"))
                THEN Append(ids, result.generatedFields[1].longValue)
                ELSE ids,
                Tail(updateResults))

(* executemany, lines 79-83: every parameter set translated, the first      *)
(* failure raised.                                                          *)
executemany_translated(query, query_args_list) ==
    LET converted ==
            [i \in 1..Len(query_args_list) |->
                Unpacked(convert_query_and_query_args_for_data_api(query, query_args_list[i]))]
        failed == {i \in 1..Len(query_args_list) : converted[i].kind = "raise"}
    IN IF failed # {} THEN converted[Minimum(failed)]
       ELSE [kind |-> "return",
             new_query |-> IF converted = <<>> THEN query
                           ELSE converted[Len(converted)].new_query,
             new_query_args_list |->
                 [i \in 1..Len(converted) |-> converted[i].new_query_args]]

(* executemany, from the call of execute_query on. *)
executemany(self, translated, remote) ==
    IF translated.kind = "raise" THEN [self EXCEPT !.ret = translated]
    ELSE IF remote.kind = "raise" THEN [self EXCEPT !.ret = remote]
    ELSE LET response == remote.response
         IN [self EXCEPT
                !.data_api_response = response,
                !.returning_ids = collect_returning_ids(@, response.updateResults),
                !.number_of_affected_rows = PyInt(Len(response.updateResults)),
                !.ret = ReturnValue(PyInt(Len(response.updateResults)))]

fetchone(self) ==
    LET decoded == data_api_response_to_pymysql_response(self.data_api_response, "one")
    IN [self EXCEPT !.data_api_response = decoded.response, !.ret = decoded.result]

fetchall(self) ==
    LET decoded == data_api_response_to_pymysql_response(self.data_api_response, "all")
    IN [self EXCEPT !.data_api_response = decoded.response, !.ret = decoded.result]

commit(self) == [self EXCEPT !.ret = ReturnNone]

affected_rows(self) == [self EXCEPT !.ret = ReturnValue(self.number_of_affected_rows)]

get_returned_ids(self) == [self EXCEPT !.ret = ReturnList(self.returning_ids)]

----------------------------------------------------------------------------
(* What the Data API answers. *)

Field(tag, v) == tag :> v

ColumnMetadata == <<[label |-> "id"], [label |-> "name"]>>

(* Rows of two columns; the null cells are the encoder's {isNull: true} and  *)
(* an isNull paired with false.                                              *)
Rows ==
    {<<Field("longValue", PyInt(1)), Field("stringValue", PyStr(<<"A", "n", "n">>))>>,
     <<Field("isNull", PyBool(FALSE)),
       map_argument_pair_to_data_api_arg(<<"a">>, PyNone).value.value>>}

Metadata == [HTTPStatusCode |-> HTTP_OK]

ResultSets ==
    {[ResponseMetadata |-> Metadata, columnMetadata |-> ColumnMetadata,
      records |-> rs, numberOfRecordsUpdated |-> PyInt(0), generatedFields |-> <<>>] :
        rs \in SeqsUpTo(Rows, MaxRows)}

Generated(ns) == {<<>>} \cup {<<Field("longValue", PyInt(n))>> : n \in ns}

(* The answers to statements without a result set: columnMetadata absent, or empty. *)
UpdateCounts ==
    {[ResponseMetadata |-> Metadata, numberOfRecordsUpdated |-> PyInt(1),
      generatedFields |-> g] : g \in Generated({0, 42})}
    \cup
    {[ResponseMetadata |-> Metadata, columnMetadata |-> <<>>, records |-> <<>>,
      numberOfRecordsUpdated |-> PyInt(0), generatedFields |-> <<>>]}

BatchResults(n, ns) ==
    {[ResponseMetadata |-> Metadata, updateResults |-> rs] :
        rs \in [1..n -> {[generatedFields |-> g] : g \in Generated(ns)}]}

Answer(r) == [kind |-> "response", response |-> r]

Rejected == Raise("BadRequestException")

OneArg == [kind |-> "list", seq |-> <<PyInt(1)>>]

InsertWithMarker == <<"I", "n", "s", "e", "r", "t", " ">> \o PositionalMarker
WithoutMarker == <<"x">>

(* The calls of execute: <<query, query_args>>. *)
ExecuteCalls ==
    {<<InsertWithMarker, OneArg>>, <<WithoutMarker, NoArgs>>, <<WithoutMarker, OneArg>>}

(* The calls of executemany with up to n parameter sets: <<query, query_args_list>>. *)
ExecuteManyCalls(n) ==
    {<<InsertWithMarker, [i \in 1..m |-> OneArg]>> : m \in 0..n}
        \cup {<<WithoutMarker, <<OneArg>> >>}

(* The answers a call can get: none is asked for when the call raises before it. *)
Answers(responses, raised_before) ==
    IF raised_before THEN {Rejected} ELSE {Answer(r) : r \in responses} \cup {Rejected}

(* The generated ids a batch answer carries: the first generated field of   *)
(* each per-row result that has one, when it is not zero.                   *)
KeptIds(updateResults) ==
    LET kept == SelectSeq(updateResults,
                          LAMBDA result : /\ result.generatedFields # <<>>
                                          /\ result.generatedFields[1].longValue.val # 0)
    IN [i \in 1..Len(kept) |-> kept[i].generatedFields[1].longValue]

----------------------------------------------------------------------------
(* Spec: one client, its methods called in any order. *)

Init ==
    /\ call = [op |-> "__init__"]
    /\ ret = ReturnNone
    /\ FacadeInit

Becomes(next) ==
    /\ ret' = next.ret
    /\ data_api_response' = next.data_api_response
    /\ number_of_affected_rows' = next.number_of_affected_rows
    /\ returning_ids' = next.returning_ids
    /\ lastrowid' = next.lastrowid

Received(response) ==
    [received |-> IF "records" \in DOMAIN response THEN response.records ELSE <<>>,
     handed |-> <<>>]

Execute(calls, responses) ==
    \E c \in calls :
        \E self \in {Self}, translated \in {execute_translated(c[1], c[2])} :
           \E remote \in Answers(responses, translated.kind = "raise") :
               \E next \in {execute(self, c[1], translated, remote)} :
                   /\ call' = [op |-> "execute", query |-> c[1], query_args |-> c[2]]
                   /\ Becomes(next)
                   /\ fetch_log' = IF next.ret.kind = "raise" THEN fetch_log
                                    ELSE Received(remote.response)
                   /\ UNCHANGED batch_ids

ExecuteManyWith(c, responses) ==
    \E self \in {Self}, translated \in {executemany_translated(c[1], c[2])} :
       \E remote \in Answers(responses, translated.kind = "raise") :
           \E next \in {executemany(self, translated, remote)} :
               /\ Len(next.returning_ids) <= MaxIds
               /\ call' = [op |-> "executemany", query |-> c[1],
                            query_args_list |-> c[2]]
               /\ Becomes(next)
               /\ fetch_log' = IF next.ret.kind = "raise" THEN fetch_log
                                ELSE Received(remote.response)
               /\ batch_ids' = IF next.ret.kind = "raise" THEN batch_ids
                                ELSE batch_ids \o KeptIds(remote.response.updateResults)

ExecuteMany(calls, ns) ==
    \E c \in calls : ExecuteManyWith(c, BatchResults(Len(c[2]), ns))

FetchOne ==
    LET next == fetchone(Self)
    IN /\ call' = [op |-> "fetchone"]
       /\ Becomes(next)
       /\ fetch_log' = IF next.ret.kind = "dict"
                        THEN [fetch_log EXCEPT !.handed = Append(@, next.ret.value)]
                        ELSE fetch_log
       /\ UNCHANGED batch_ids

FetchAll ==
    LET next == fetchall(Self)
    IN /\ call' = [op |-> "fetchall"]
       /\ Becomes(next)
       /\ fetch_log' = IF next.ret.kind = "list"
                        THEN [fetch_log EXCEPT !.handed = @ \o next.ret.value]
                        ELSE fetch_log
       /\ UNCHANGED batch_ids

Commit ==
    /\ call' = [op |-> "commit"]
    /\ Becomes(commit(Self))
    /\ UNCHANGED <<fetch_log, batch_ids>>

AffectedRows ==
    /\ call' = [op |-> "affected_rows"]
    /\ Becomes(affected_rows(Self))
    /\ UNCHANGED <<fetch_log, batch_ids>>

GetReturnedIds ==
    /\ call' = [op |-> "get_returned_ids"]
    /\ Becomes(get_returned_ids(Self))
    /\ UNCHANGED <<fetch_log, batch_ids>>

(* Spec: every result set of up to MaxRows rows; batches of one parameter set. *)
Next ==
    \/ Execute(ExecuteCalls, ResultSets \cup UpdateCounts)
    \/ ExecuteMany(ExecuteManyCalls(1), {0, 5})
    \/ FetchOne
    \/ FetchAll
    \/ Commit
    \/ AffectedRows
    \/ GetReturnedIds

Spec == Init /\ [][Next]_vars

(* SpecBatch: every batch of up to MaxBatch parameter sets; the statements   *)
(* answered with one row, or with an update count and a generated id.        *)
OneRow == {r \in ResultSets : Len(r.records) = 1}
OneGenerated == {r \in UpdateCounts : r.generatedFields # <<>>}

(* Three parameter sets answered with the generated fields [0], [5] and []. *)
ThreeSets == <<InsertWithMarker, <<OneArg, OneArg, OneArg>> >>
ThreeResults ==
    [ResponseMetadata |-> Metadata,
     updateResults |-> <<[generatedFields |-> <<Field("longValue", PyInt(0))>>],
                         [generatedFields |-> <<Field("longValue", PyInt(5))>>],
                         [generatedFields |-> <<>>]>>]

NextBatch ==
    \/ Execute(ExecuteCalls, OneRow \cup OneGenerated)
    \/ ExecuteMany(ExecuteManyCalls(MaxBatch), {0, 5, 42})
    \/ ExecuteManyWith(ThreeSets, {ThreeResults})
    \/ FetchOne
    \/ FetchAll
    \/ Commit
    \/ AffectedRows
    \/ GetReturnedIds

SpecBatch == Init /\ [][NextBatch]_vars

----------------------------------------------------------------------------
(* What the decoding claims compare the rows handed out with. *)

TagOf(cell) == CHOOSE tag \in DOMAIN cell : TRUE

Unwrapped(cell) == IF "isNull" \in DOMAIN cell THEN PyNone ELSE cell[TagOf(cell)]

Labels == {ColumnMetadata[i].label : i \in 1..Len(ColumnMetadata)}

ExpectedRow(row) ==
    [l \in Labels |->
        Unwrapped(row[CHOOSE i \in 1..Len(ColumnMetadata) : ColumnMetadata[i].label = l])]

ExpectedRows(rows) == [k \in 1..Len(rows) |-> ExpectedRow(rows[k])]

HasColumns(response) ==
    "columnMetadata" \in DOMAIN response /\ response.columnMetadata # <<>>

Remaining(response) ==
    IF "records" \in DOMAIN response THEN response.records ELSE <<>>

Fetched == call.op \in {"fetchone", "fetchall"}

(* C4: encoding null gives {isNull: true}; in every row handed out by        *)
(* fetchone or fetchall a cell tagged isNull, whatever it is paired with,    *)
(* has become null, and a cell of any other tag its inner value.             *)
C4_NullRoundTrip ==
    /\ map_argument_pair_to_data_api_arg(<<"a">>, PyNone).value.value
           = [isNull |-> PyBool(TRUE)]
    /\ Len(fetch_log.handed) <= Len(fetch_log.received)
    /\ \A k \in 1..Len(fetch_log.handed), i \in 1..Len(ColumnMetadata) :
           LET cell == fetch_log.received[k][i]
               decoded == fetch_log.handed[k][ColumnMetadata[i].label]
           IN IF "isNull" \in DOMAIN cell THEN decoded = PyNone
              ELSE decoded = cell[TagOf(cell)]

(* fetchall has handed out a row whose cells are {isNull: false} and the     *)
(* encoding of null, and a row without nulls.                                *)
C4_Witness ==
    /\ call.op = "fetchall"
    /\ fetch_log.received =
           <<<<Field("isNull", PyBool(FALSE)), Field("isNull", PyBool(TRUE))>>,
             <<Field("longValue", PyInt(1)), Field("stringValue", PyStr(<<"A", "n", "n">>))>>>>
    /\ ret = ReturnList(<<[id |-> PyNone, name |-> PyNone],
                           [id |-> PyInt(1), name |-> PyStr(<<"A", "n", "n">>)]>>)

(* C5: fetchone hands out the first remaining row, decoded label by label,   *)
(* and removes exactly that row: the rows handed out so far followed by the  *)
(* rows still stored are the rows received, in their order; the j-th         *)
(* fetchone returned the j-th row received; fetchone returns no row only     *)
(* when none remains; a fetchall returns exactly the rows not yet handed.    *)
C5_FetchOneConsumesInOrder ==
    /\ data_api_response # PyNone =>
           ExpectedRows(fetch_log.received) =
               fetch_log.handed \o ExpectedRows(Remaining(data_api_response))
    /\ call.op = "fetchone" /\ ret.kind = "dict" =>
           /\ fetch_log.handed # <<>>
           /\ ret.value = ExpectedRow(fetch_log.received[Len(fetch_log.handed)])
           /\ Remaining(data_api_response) =
                  SubSeq(fetch_log.received, Len(fetch_log.handed) + 1,
                         Len(fetch_log.received))
    /\ call.op = "fetchone" /\ ret.kind # "dict" /\ HasColumns(data_api_response) =>
           /\ ret = ReturnNone
           /\ Len(fetch_log.handed) = Len(fetch_log.received)
    /\ call.op = "fetchall" /\ ret.kind = "list" =>
           LET j == Len(fetch_log.received) - Len(ret.value)
           IN /\ j >= 0
              /\ ret.value = ExpectedRows(SubSeq(fetch_log.received, j + 1,
                                                  Len(fetch_log.received)))
              /\ SubSeq(fetch_log.handed, 1, j) =
                     ExpectedRows(SubSeq(fetch_log.received, 1, j))

(* The second fetchone on two different rows has returned the second row. *)
C5_Witness ==
    /\ call.op = "fetchone"
    /\ Len(fetch_log.received) = 2
    /\ fetch_log.received[1] # fetch_log.received[2]
    /\ Len(fetch_log.handed) = 2
    /\ ret = ReturnDict(ExpectedRow(fetch_log.received[2]))
    /\ data_api_response.records = <<>>

(* C6: on a stored response with columns and no records (none received, or  *)
(* all of them handed out by fetchone or drained by fetchall) fetchone       *)
(* returns null and fetchall an empty list, the response left as it is; and  *)
(* a fetchall that returned rows has left no record.                         *)
C6_Step ==
    /\ /\ call'.op \in {"fetchone", "fetchall"}
       /\ HasColumns(data_api_response)
       /\ data_api_response.records = <<>>
       => /\ ret' = IF call'.op = "fetchone" THEN ReturnNone ELSE ReturnList(<<>>)
          /\ data_api_response' = data_api_response
    /\ call'.op = "fetchall" /\ ret'.kind = "list" =>
           /\ data_api_response'.records = <<>>
           /\ fetch_log'.handed = ExpectedRows(fetch_log'.received)

C6_EmptyOrExhausted == [][C6_Step]_vars

(* fetchall on a result set of two rows that two fetchone calls emptied. *)
C6_Witness ==
    /\ call.op = "fetchall"
    /\ ret = ReturnList(<<>>)
    /\ Len(fetch_log.received) = 2
    /\ Len(fetch_log.handed) = 2
    /\ HasColumns(data_api_response)

NonResult ==
    /\ Fetched
    /\ data_api_response # PyNone
    /\ NoColumnMetadata(data_api_response)
    /\ data_api_response.ResponseMetadata.HTTPStatusCode = HTTP_OK

(* C7: with a stored response of a successful statement without column       *)
(* metadata, fetchone returns null and fetchall returns an empty sequence.   *)
C7_NonResultFetchAllEmpty ==
    NonResult => ret = IF call.op = "fetchone" THEN ReturnNone ELSE ReturnList(<<>>)

(* INSERT in any mix of cases, somewhere in the query. *)
MentionsInsert(query) ==
    \E i \in 1..Len(query) :
        /\ i + 5 <= Len(query)
        /\ \A j \in 1..6 :
               query[i + j - 1] \in {INSERT[j], <<"i", "n", "s", "e", "r", "t">>[j]}

(* C9: a successful execute of a query that mentions INSERT, answered with   *)
(* at least one generated field, sets lastrowid to the integer of the first  *)
(* generated field; any other successful execute leaves lastrowid as it was. *)
C9_Step ==
    call'.op = "execute" /\ ret'.kind = "value" =>
        IF MentionsInsert(call'.query) /\ data_api_response'.generatedFields # <<>>
        THEN lastrowid' = data_api_response'.generatedFields[1].longValue
        ELSE lastrowid' = lastrowid

C9_InsertIdCapture == [][C9_Step]_vars

(* An insert answered with generatedFields [{longValue: 42}]. *)
C9_Witness ==
    /\ call.op = "execute"
    /\ MentionsInsert(call.query)
    /\ ret.kind = "value"
    /\ data_api_response.generatedFields = <<[longValue |-> PyInt(42)]>>
    /\ lastrowid = PyInt(42)

(* C8: the list get_returned_ids returns is, after any calls, the            *)
(* concatenation in call order and per-row order of the first generated      *)
(* field of the per-row results that have one and whose value is not zero:   *)
(* nothing else is added, nothing is removed or reordered.                   *)
C8_BatchIdsAccumulate ==
    /\ returning_ids = batch_ids
    /\ \A i \in 1..Len(returning_ids) : returning_ids[i].val # 0
    /\ call.op = "get_returned_ids" => ret = ReturnList(batch_ids)

(* On a new client, one executemany answered [0], [5], [] leaves [5]. *)
C8_Witness ==
    /\ call.op = "executemany"
    /\ data_api_response = ThreeResults
    /\ returning_ids = <<PyInt(5)>>

====
